---- MODULE Spec2Model ----
(***************************************************************************)
(* Feishu notification bots.                                               *)
(*                                                                         *)
(*   latest_paper_bot.py : main() polls an RSS feed once per interval,     *)
(*       filters the entries with get_new_notifications() and posts one    *)
(*       card per new entry through FeishuRobotSender (no secret).         *)
(*   feishubot_demo.py   : FeishuRobotSender with an optional secret and   *)
(*       the three message builders.                                       *)
(*                                                                         *)
(* Time is counted in whole check intervals (one hour in production mode); *)
(* the clock `now` is the UTC wall clock.                                  *)
(***************************************************************************)
EXTENDS Integers, Sequences, FiniteSets, TLC

VARIABLES
    now,                \* UTC wall clock
    pc,                 \* position of main(): "poll", "deliver", "update", "sleep", "crashed"
    first,              \* TRUE until the first watermark update of the run
    last_checked,       \* main: the watermark (UTC)
    sent_entries,       \* main: set of entry ids
    polled_sent,        \* sent_entries as handed to this cycle's get_new_notifications
    feed,               \* get_new_notifications: feed.entries of this cycle's fetch
    feed_status,        \* what the fetch met: "ok", "unreachable", "malformed"
    new_notifications,  \* main: result of this cycle's get_new_notifications
    idx,                \* main: position of the for loop in new_notifications
    attempted,          \* notifications handed to send_card_message in this cycle
    calls,              \* number of send_card_message calls per entry id in this run
    raised,             \* TRUE when this cycle was aborted by an exception
    secret,             \* FeishuRobotSender.secret
    call,               \* the last call of a message builder: its name and arguments
    payload,            \* the payload last handed to _send_message
    posted,             \* body of the last requests.post
    outcome,            \* what the last requests.post met (one of PostOutcomes)
    result              \* value returned by the last _send_message (empty if it raised)

vars == << now, pc, first, last_checked, sent_entries, polled_sent, feed, feed_status,
           new_notifications, idx, attempted, calls, raised, secret, call,
           payload, posted, outcome, result >>

loopVars == << pc, first, last_checked, sent_entries, polled_sent, feed, feed_status,
               new_notifications, idx, attempted, calls, raised >>

-----------------------------------------------------------------------------
(* Bounds of the model *)

MaxTime == 2
MaxFeed == 2
MaxFairFeed == 1        \* feed length under the fair specification

(* Asia/Shanghai is UTC+8 all year (pytz.timezone('Asia/Shanghai')). *)
ShanghaiOffset == 8

None == "None"
NoTime == -1            \* entry without published_parsed

Times == 0 .. MaxTime
Ids == {"a"}
Links == {"l1"}
Keys == Ids \cup Links

(* The --reference-time option: a local (Asia/Shanghai) time. *)
ReferenceTimes == ShanghaiOffset .. (ShanghaiOffset + MaxTime)

(* feedparser entries: id and link may be missing, so may published_parsed. *)
(* An entry without a link raises before its published time is read, so    *)
(* one published value stands for all of them.                              *)
Entries == {e \in [id : Ids \cup {None}, link : Links \cup {None},
                    published_parsed : Times \cup {NoTime}] :
               e.link = None => e.published_parsed = NoTime}

RECURSIVE SeqsUpTo(_, _)
SeqsUpTo(S, n) ==
    IF n = 0 THEN {<< >>}
    ELSE LET shorter == SeqsUpTo(S, n - 1)
         IN  shorter \cup {Append(s, e) : s \in {t \in shorter : Len(t) = n - 1}, e \in S}

Feeds == SeqsUpTo(Entries, MaxFeed)

Min(a, b) == IF a < b THEN a ELSE b

-----------------------------------------------------------------------------
(* FeishuRobotSender *)

Secrets == {None, "", "s1"}

(* `if not self.secret`: None and the empty string are both "no secret". *)
Truthy(s) == s # None /\ s # ""

EmptyDict == [k \in {} |-> None]

(* No message builder has been called *)
NoCall == [op |-> "none"]

DictUpdate_replace(d, e) == IF DOMAIN e = {} THEN d ELSE e

(* dict.update: keys of e override keys of d, all other keys of d are kept. *)
DictUpdate(d, e) ==
    [k \in (DOMAIN d) \cup (DOMAIN e) |-> IF k \in DOMAIN e THEN e[k] ELSE d[k]]

(* Uninterpreted (injective) encodings. *)
Str(n) == << "str", n >>
Utf8(s) == << "utf8", s >>
HmacSha256(key, msg) == << "hmac-sha256", key, msg >>
B64(bytes) == << "b64", bytes >>

(* hmac.new(key, digestmod=...) is called without msg: the data is empty. *)
EmptyMsg == << >>

generate_sign_unconditional(sec, t) ==
    [timestamp |-> Str(t),
     sign |-> B64(HmacSha256(Utf8(<< Str(t), "\n", sec >>), EmptyMsg))]

generate_sign_data_is_message(sec, t) ==
    IF ~Truthy(sec) THEN EmptyDict
    ELSE [timestamp |-> Str(t),
          sign |-> B64(HmacSha256(Utf8(<< Str(t), "\n", sec >>),
                                  Utf8(<< Str(t), "\n", sec >>)))]

(* _generate_sign at wall-clock second t *)
generate_sign(sec, t) ==
    IF ~Truthy(sec) THEN EmptyDict
    ELSE LET timestamp == t
             string_to_sign == << Str(timestamp), "\n", sec >>
             hmac_code == HmacSha256(Utf8(string_to_sign), EmptyMsg)
             sign == B64(hmac_code)
         IN  [timestamp |-> Str(timestamp), sign |-> sign]

(* What requests.post / raise_for_status / response.json() can do:           *)
(*   "ok"        2xx and a JSON body                                         *)
(*   "transport" requests.post raises a RequestException                     *)
(*   "status"    raise_for_status raises HTTPError (a RequestException)      *)
(*   "json"      response.json() raises requests' JSONDecodeError            *)
(*               (a RequestException)                                        *)
(*   "raise"     any exception that is not a RequestException                *)
Caught == {"transport", "status", "json"}
PostOutcomes == {"ok"} \cup Caught \cup {"raise"}

(* The body _send_message posts *)
PostedBody(p, sec, t) == DictUpdate(p, generate_sign(sec, t))

(* What _send_message returns when it returns *)
SendReturn(body, o) ==
    IF o = "ok" THEN [code |-> 0]
    ELSE [error |-> o, payload |-> body]

CardPayload(card) == [msg_type |-> "interactive", card |-> card]

-----------------------------------------------------------------------------
(* get_new_notifications *)

RaisedResult == [raised |-> TRUE, value |-> << >>]

(* entry.get('id', entry.link): the default entry.link is evaluated first, *)
(* so an entry without a link raises AttributeError whatever its id.       *)
EntryId(entry) == IF entry.id # None THEN entry.id ELSE entry.link

PickNew_ignores_watermark(published_time, last) == published_time # NoTime

PickNew_inclusive(published_time, last) == published_time >= last

PickNew(published_time, last) == published_time > last

IsSent_dropped(entry_id, sent) == FALSE

IsSent(entry_id, sent) == entry_id \in sent

RECURSIVE FilterFrom(_, _, _, _, _)
FilterFrom(entries, i, last, sent, acc) ==
    IF i > Len(entries) THEN [raised |-> FALSE, value |-> acc]
    ELSE LET entry == entries[i] IN
         IF entry.link = None THEN RaisedResult
         ELSE IF IsSent(EntryId(entry), sent)
              THEN FilterFrom(entries, i + 1, last, sent, acc)
         ELSE IF entry.published_parsed = NoTime THEN RaisedResult
         ELSE IF PickNew(entry.published_parsed, last)
              THEN FilterFrom(entries, i + 1, last, sent,
                              Append(acc, [published |-> entry.published_parsed,
                                           id |-> EntryId(entry)]))
         ELSE FilterFrom(entries, i + 1, last, sent, acc)

Reverse(q) == [i \in 1 .. Len(q) |-> q[Len(q) + 1 - i]]

get_new_notifications_prepend(entries, last, sent) ==
    LET r == FilterFrom(entries, 1, last, sent, << >>)
    IN  [raised |-> r.raised, value |-> Reverse(r.value)]

get_new_notifications(entries, last, sent) == FilterFrom(entries, 1, last, sent, << >>)

-----------------------------------------------------------------------------
(* main() of latest_paper_bot.py *)

(* reference_dt localized to Asia/Shanghai, then .astimezone(pytz.UTC) *)
ToUtc(local) == local - ShanghaiOffset

(* published.astimezone(Asia/Shanghai) *)
ToBeijing(utc) == utc + ShanghaiOffset

OnException_skips_update == "sleep"

OnException_propagates == "crashed"

(* Where control goes when an Exception is raised inside the try block:   *)
(* the handler logs it and falls through to the watermark update.         *)
OnException == "update"

Escapes_nothing(o) == FALSE

Escapes_narrow(o) == o \notin {"ok", "transport"}

(* `except requests.RequestException` around post/raise_for_status/json *)
Escapes(o) == o \notin ({"ok"} \cup Caught)

MarkSent_replace(sent, entry_id) == {entry_id}

MarkSent_forgotten(sent, entry_id) == sent

(* sent_entries.add(notification["id"]) *)
MarkSent(sent, entry_id) == sent \cup {entry_id}

UpdatedWatermark_shifted(clock, last) == ToUtc(clock)

(* last_checked = datetime.now(pytz.UTC) *)
UpdatedWatermark(clock, last) == clock

(* The card built for one notification (title and summary are carried     *)
(* through as opaque text and are not modelled).                          *)
BuildCard(notification) ==
    [header |-> "New Paper Notification",
     published_time |-> ToBeijing(notification.published),
     entry |-> notification.id]

(* What a fetch that met `status` can hand back as feed.entries:          *)
(* feedparser reports a failed fetch or an ill-formed document in         *)
(* feed.bozo, which the code never reads; an unreachable feed has no      *)
(* entries, an ill-formed one has the entries the parser could salvage.   *)
FeedStatuses == {"ok", "unreachable", "malformed"}
FetchedEntries(status, feeds) == IF status = "unreachable" THEN {<< >>} ELSE feeds

Init ==
    /\ now \in Times
    /\ pc = "poll"
    /\ first = TRUE
    /\ \E reference_time \in ReferenceTimes : last_checked = ToUtc(reference_time)
    /\ sent_entries = {}
    /\ polled_sent = {}
    /\ feed = << >>
    /\ feed_status = "ok"
    /\ new_notifications = << >>
    /\ idx = 1
    /\ attempted = << >>
    /\ calls = [k \in Keys |-> 0]
    /\ raised = FALSE
    /\ secret = None
    /\ call = NoCall
    /\ payload = EmptyDict
    /\ posted = EmptyDict
    /\ outcome = "ok"
    /\ result = EmptyDict

(* Lines 192-197: the poll of one cycle, the feed being one of `feeds`.    *)
(* feedparser.parse may itself raise.                                     *)
PollOf(feeds) ==
    /\ pc = "poll"
    /\ \E status \in FeedStatuses, parse_raises \in BOOLEAN :
         \E entries \in FetchedEntries(status, feeds) :
            LET r == IF parse_raises THEN RaisedResult
                     ELSE get_new_notifications(entries, last_checked, sent_entries)
            IN  /\ feed_status' = status
                /\ feed' = IF parse_raises THEN << >> ELSE entries
                /\ new_notifications' = r.value
                /\ raised' = r.raised
                /\ pc' = IF r.raised THEN OnException
                         ELSE IF r.value # << >> THEN "deliver" ELSE "update"
    /\ polled_sent' = sent_entries
    /\ idx' = 1
    /\ attempted' = << >>
    /\ UNCHANGED << now, first, last_checked, sent_entries, calls, secret, call,
                    payload, posted, outcome, result >>

Poll == PollOf(Feeds)

(* Lines 199-246: one iteration of the for loop. *)
Deliver ==
    /\ pc = "deliver"
    /\ idx <= Len(new_notifications)
    /\ LET notification == new_notifications[idx]
           card_payload == CardPayload(BuildCard(notification))
           body == PostedBody(card_payload, secret, now)
       IN  \E o \in PostOutcomes :
             /\ call' = [op |-> "card", card |-> BuildCard(notification)]
             /\ payload' = card_payload
             /\ posted' = body
             /\ outcome' = o
             /\ attempted' = Append(attempted, notification)
             /\ calls' = [calls EXCEPT ![notification.id] = @ + 1]
             /\ IF Escapes(o)
                THEN /\ raised' = TRUE
                     /\ pc' = OnException
                     /\ result' = EmptyDict
                     /\ UNCHANGED << sent_entries, idx >>
                ELSE /\ result' = SendReturn(body, o)
                     /\ sent_entries' = MarkSent(sent_entries, notification.id)
                     /\ idx' = idx + 1
                     /\ pc' = IF idx + 1 > Len(new_notifications) THEN "update"
                              ELSE "deliver"
                     /\ UNCHANGED raised
    /\ UNCHANGED << now, first, last_checked, polled_sent, feed, feed_status,
                    new_notifications, secret >>

(* Lines 254-256. The locals of the finished cycle (and the record of its *)
(* last request) are dropped here.                                       *)
UpdateWatermark ==
    /\ pc = "update"
    /\ last_checked' = UpdatedWatermark(now, last_checked)
    /\ first' = FALSE
    /\ pc' = "sleep"
    /\ polled_sent' = {}
    /\ feed' = << >>
    /\ feed_status' = "ok"
    /\ new_notifications' = << >>
    /\ idx' = 1
    /\ attempted' = << >>
    /\ call' = NoCall
    /\ payload' = EmptyDict
    /\ posted' = EmptyDict
    /\ outcome' = "ok"
    /\ result' = EmptyDict
    /\ UNCHANGED << now, sent_entries, calls, raised, secret >>

(* Line 260: time.sleep(CHECK_INTERVAL); the clock is capped at MaxTime. *)
Sleep ==
    /\ pc = "sleep"
    /\ now' = Min(now + 1, MaxTime)
    /\ pc' = "poll"
    /\ raised' = FALSE
    /\ UNCHANGED << first, last_checked, sent_entries, polled_sent, feed, feed_status,
                    new_notifications, idx, attempted, calls, secret, call, payload,
                    posted, outcome, result >>

(* The wall clock also advances while the process is blocked in I/O. *)
Tick ==
    /\ now < MaxTime
    /\ now' = now + 1
    /\ UNCHANGED << loopVars, secret, call, payload, posted, outcome, result >>

Next == Poll \/ Deliver \/ UpdateWatermark \/ Sleep \/ Tick

Spec == Init /\ [][Next]_vars

(* One thread of control that keeps running: every step that can be taken *)
(* is taken eventually. The feeds are kept shorter here.                  *)
FairPoll == PollOf(SeqsUpTo(Entries, MaxFairFeed))

FairStep == FairPoll \/ Deliver \/ UpdateWatermark \/ Sleep

FairNext == FairPoll \/ Deliver \/ UpdateWatermark \/ Sleep \/ Tick

FairSpec == Init /\ [][FairNext]_vars /\ WF_vars(FairStep)

-----------------------------------------------------------------------------
(* FeishuRobotSender of feishubot_demo.py, driven by any caller.           *)
(* A text is a sequence of tokens << kind, value >>.                       *)

MaxUsers == 2

Users == {"u1", "u2"}
Texts == { << << "txt", "hi" >> >>, << << "txt", "yo" >> >> }
Cards == {"card1", "card2"}
Languages == {"zh_cn", "en_us"}
Titles == {"t1"}
Contents == {"c1"}

(* at_users: None behaves as the empty list (`if at_users:`) *)
AtUserLists == SeqsUpTo(Users, MaxUsers)

Space == << "sp", " " >>

(* f'<at user_id="{user_id}"></at>' *)
AtToken(user_id) == << "at", user_id >>

(* ' '.join(parts), every part one token *)
RECURSIVE JoinSpace(_)
JoinSpace(parts) ==
    IF Len(parts) = 0 THEN << >>
    ELSE IF Len(parts) = 1 THEN << parts[1] >>
    ELSE << parts[1], Space >> \o JoinSpace(Tail(parts))

MentionText_all_last(text, at_users, at_all) ==
    LET t1 == IF at_all THEN << AtToken("all"), Space >> \o text ELSE text
        at_text == JoinSpace([i \in 1 .. Len(at_users) |-> AtToken(at_users[i])])
    IN  IF Len(at_users) > 0 THEN at_text \o << Space >> \o t1 ELSE t1

(* Lines 59-64 of send_text_message *)
MentionText(text, at_users, at_all) ==
    LET at_text == JoinSpace([i \in 1 .. Len(at_users) |-> AtToken(at_users[i])])
        t1 == IF Len(at_users) > 0 THEN at_text \o << Space >> \o text ELSE text
    IN  IF at_all THEN << AtToken("all"), Space >> \o t1 ELSE t1

TextPayload(text) == [msg_type |-> "text", content |-> [text |-> text]]

PostPayload(title, content, language) ==
    [msg_type |-> "post",
     content |-> [post |-> [l \in {language} |-> [title |-> title, content |-> content]]]]

SenderInit ==
    /\ now \in Times
    /\ pc = "poll"
    /\ first = TRUE
    /\ last_checked = 0
    /\ sent_entries = {}
    /\ polled_sent = {}
    /\ feed = << >>
    /\ feed_status = "ok"
    /\ new_notifications = << >>
    /\ idx = 1
    /\ attempted = << >>
    /\ calls = [k \in Keys |-> 0]
    /\ raised = FALSE
    /\ secret \in Secrets
    /\ call = NoCall
    /\ payload = EmptyDict
    /\ posted = EmptyDict
    /\ outcome = "ok"
    /\ result = EmptyDict

(* _send_message(p): sign, post, and return the response or the error     *)
(* result; an exception that is no RequestException reaches the caller.   *)
send_message(p) ==
    \E o \in PostOutcomes :
        /\ payload' = p
        /\ posted' = PostedBody(p, secret, now)
        /\ outcome' = o
        /\ IF Escapes(o)
           THEN raised' = TRUE /\ result' = EmptyDict
           ELSE raised' = FALSE /\ result' = SendReturn(PostedBody(p, secret, now), o)
        /\ UNCHANGED << now, pc, first, last_checked, sent_entries, polled_sent, feed,
                        feed_status,
                        new_notifications, idx, attempted, calls, secret >>

send_text_message ==
    \E text \in Texts, at_users \in AtUserLists, at_all \in BOOLEAN :
        /\ call' = [op |-> "text", text |-> text, at_users |-> at_users, at_all |-> at_all]
        /\ send_message(TextPayload(MentionText(text, at_users, at_all)))

send_post_message ==
    \E title \in Titles, content \in Contents, language \in Languages :
        /\ call' = [op |-> "post", title |-> title, content |-> content,
                    language |-> language]
        /\ send_message(PostPayload(title, content, language))

send_card_message ==
    \E card \in Cards :
        /\ call' = [op |-> "card", card |-> card]
        /\ send_message(CardPayload(card))

SenderNext == send_text_message \/ send_post_message \/ send_card_message \/ Tick

SenderSpec == SenderInit /\ [][SenderNext]_vars

-----------------------------------------------------------------------------
(* Claims *)

(* C1: in a run of the main loop send_card_message is called at most once *)
(* per entry id, whatever the feed lists or republishes.                  *)
C1_AtMostOncePerId == \A k \in Keys : calls[k] <= 1

(* C2 as stated: the watermark never moves backward, in any cycle, the    *)
(* first one included.                                                    *)
C2_OnlyForward == [][last_checked' >= last_checked]_vars

(* C2 amended: with a clock that does not run backward, the watermark     *)
(* never moves backward in a cycle that is not the first, nor in a first  *)
(* cycle whose reference time is not in the future.                       *)
C2_ForwardUnlessFutureReference ==
    [][(~first \/ last_checked <= now) => last_checked' >= last_checked]_vars

C2_Witness == ~first /\ pc = "update" /\ last_checked < now

(* The notification get_new_notifications builds for a feed entry *)
NotificationOf(entry) == [published |-> entry.published_parsed, id |-> EntryId(entry)]

(* C3: get_new_notifications returns no entry published at or before the  *)
(* watermark; an entry published exactly at the watermark is excluded.    *)
C3_OnlyAfterWatermark ==
    /\ \A i \in 1 .. Len(new_notifications) :
          new_notifications[i].published > last_checked
    /\ \A j \in 1 .. Len(feed) :
          feed[j].published_parsed <= last_checked =>
             \A i \in 1 .. Len(new_notifications) :
                new_notifications[i] # NotificationOf(feed[j])

C3_Witness ==
    /\ pc = "deliver"
    /\ Len(feed) = 2
    /\ feed[1].published_parsed = last_checked
    /\ feed[1].link # None
    /\ Len(new_notifications) = 1

(* C4: get_new_notifications returns no entry whose id (the feed id, or   *)
(* the link when the id is absent) is in sent_entries, even when it was   *)
(* published after the watermark.                                         *)
C4_NoSentEntry ==
    /\ \A i \in 1 .. Len(new_notifications) : new_notifications[i].id \notin polled_sent
    /\ \A j \in 1 .. Len(feed) :
          (feed[j].link # None /\ EntryId(feed[j]) \in polled_sent) =>
             \A i \in 1 .. Len(new_notifications) :
                new_notifications[i].id # EntryId(feed[j])

C4_Witness ==
    /\ pc = "deliver"
    /\ Len(feed) = 2
    /\ feed[1].id = None
    /\ feed[1].link \in polled_sent
    /\ feed[1].published_parsed > last_checked
    /\ Len(new_notifications) = 1

(* new_notifications is an order-preserving selection of the feed: some   *)
(* strictly increasing choice of feed positions yields it.                *)
IsSelectionInOrder(selected, entries) ==
    \E f \in [1 .. Len(selected) -> 1 .. Len(entries)] :
        /\ \A i, k \in 1 .. Len(selected) : i < k => f[i] < f[k]
        /\ \A i \in 1 .. Len(selected) :
              /\ entries[f[i]].link # None
              /\ selected[i] = NotificationOf(entries[f[i]])

C5_Frame ==
    /\ pc = "poll" => sent_entries' = sent_entries
    /\ sent_entries' # sent_entries =>
          /\ pc = "deliver"
          /\ attempted' = Append(attempted, new_notifications[idx])
          /\ sent_entries' = sent_entries \cup {new_notifications[idx].id}

(* C5: get_new_notifications returns the selected entries in feed order   *)
(* and leaves sent_entries unchanged; sent_entries changes only in the    *)
(* main loop, after the delivery attempt for the entry added.             *)
C5_FeedOrderAndFrame ==
    /\ [](IsSelectionInOrder(new_notifications, feed) /\ polled_sent \subseteq sent_entries)
    /\ [][C5_Frame]_vars

C5_Witness ==
    /\ pc = "deliver"
    /\ Len(new_notifications) = 2
    /\ new_notifications[1].id # new_notifications[2].id
    /\ idx = 2
    /\ sent_entries = polled_sent \cup {new_notifications[1].id}
    /\ sent_entries # polled_sent

(* The entries of a feed published after the watermark, in feed order *)
RECURSIVE PublishedAfter(_, _)
PublishedAfter(entries, last) ==
    IF entries = << >> THEN << >>
    ELSE LET rest == PublishedAfter(Tail(entries), last)
         IN  IF Head(entries).published_parsed > last
             THEN << NotificationOf(Head(entries)) >> \o rest
             ELSE rest

IdsOf(notifications) == {notifications[i].id : i \in 1 .. Len(notifications)}

(* A fetched feed whose entries all carry a link and a published time,    *)
(* some at or before the watermark and some after it, polled with an      *)
(* empty sent-id set; the try block of the cycle has been left.           *)
C6_Scenario ==
    /\ pc = "update"
    /\ polled_sent = {}
    /\ feed # << >>
    /\ \A j \in 1 .. Len(feed) : feed[j].link # None /\ feed[j].published_parsed # NoTime
    /\ \E j \in 1 .. Len(feed) : feed[j].published_parsed <= last_checked
    /\ \E j \in 1 .. Len(feed) : feed[j].published_parsed > last_checked

C6_Outcome ==
    /\ attempted = PublishedAfter(feed, last_checked)
    /\ sent_entries = IdsOf(PublishedAfter(feed, last_checked))

C7_FailedDelivery == Len(attempted') = Len(attempted) + 1 /\ outcome' \in Caught

C7_Continues ==
    /\ DOMAIN result' = {"error", "payload"}
    /\ result'.error = outcome'
    /\ result'.payload = posted'
    /\ posted' = PostedBody(CardPayload(BuildCard(new_notifications[idx])), secret, now)
    /\ ~raised'
    /\ idx' = idx + 1
    /\ pc' = IF idx' <= Len(new_notifications) THEN "deliver" ELSE "update"

(* C7: when the webhook POST fails, _send_message does not raise but      *)
(* returns a result with an error key and the attempted payload, and the  *)
(* loop goes on with the next entry of the cycle, or to the end of the    *)
(* cycle after the last one.                                              *)
C7_FailureIsAResult ==
    /\ [][C7_FailedDelivery => C7_Continues]_vars
    /\ [](pc # "crashed")

C7_Witness ==
    /\ pc = "deliver"
    /\ idx = 2
    /\ Len(new_notifications) = 2
    /\ outcome = "json"
    /\ "error" \in DOMAIN result
    /\ ~raised

(* C8: an error raised inside a poll cycle (by the fetch, by the filter   *)
(* or by a send) never ends the process: the loop reaches the sleep and   *)
(* polls again, so polls happen infinitely often.                         *)
C8_LoopSurvivesErrors ==
    /\ [](pc # "crashed")
    /\ (raised ~> pc = "sleep")
    /\ (pc = "sleep" ~> pc = "poll")
    /\ []<><<FairPoll>>_vars

C8_Witness == raised /\ pc = "sleep" /\ ~first /\ calls["a"] > 0

(* C9: a cycle whose feed is unreachable or malformed behaves as a poll   *)
(* that found no new entry: nothing is sent and sent_entries is as it     *)
(* was.                                                                   *)
C9_BadFeedFindsNothing ==
    (feed_status \in {"unreachable", "malformed"} /\ pc \in {"deliver", "update"}) =>
        /\ new_notifications = << >>
        /\ attempted = << >>
        /\ sent_entries = polled_sent

(* A secret counts as configured when it is a non-empty string *)
C10_Configured == secret \notin {None, ""}

(* C10: the posted body has the top-level fields timestamp and sign when  *)
(* a secret is configured and neither of them when none is; every other   *)
(* field of the payload is posted unchanged.                              *)
C10_SignFieldsIffSecret ==
    DOMAIN posted # {} =>
        /\ C10_Configured => {"timestamp", "sign"} \subseteq DOMAIN posted
        /\ ~C10_Configured => {"timestamp", "sign"} \cap DOMAIN posted = {}
        /\ (DOMAIN posted) \ {"timestamp", "sign"} = DOMAIN payload
        /\ \A k \in DOMAIN payload : posted[k] = payload[k]

C10_Witness ==
    /\ secret = "s1"
    /\ {"timestamp", "sign"} \subseteq DOMAIN posted
    /\ posted.msg_type = "text"
    /\ posted.content = payload.content

-----------------------------------------------------------------------------
(* C11: the signature of a signed request.                                   *)

(* message = timestamp as decimal string + newline + secret *)
SignedMessage(t) == << Str(t), "\n", secret >>

C11_Signed == Truthy(secret) /\ "sign" \in DOMAIN posted

(* C11 as stated: the sign of every signed request is the base64 of the      *)
(* HMAC-SHA256 whose key and whose signed data are both utf8(message).       *)
C11_KeyAndDataAreMessage ==
    C11_Signed =>
        \E t \in Times :
            /\ posted.timestamp = Str(t)
            /\ posted.sign = B64(HmacSha256(Utf8(SignedMessage(t)),
                                            Utf8(SignedMessage(t))))

(* C11 amended: the sign of every signed request is the base64 of the        *)
(* HMAC-SHA256 whose key is utf8(message) and whose signed data is empty,    *)
(* with message = timestamp as decimal string + newline + secret.            *)
C11_KeyIsMessageDataIsEmpty ==
    C11_Signed =>
        \E t \in Times :
            /\ posted.timestamp = Str(t)
            /\ posted.sign = << "b64", << "hmac-sha256",
                                         << "utf8", SignedMessage(t) >>,
                                         << >> >> >>

C11_Witness ==
    /\ secret = "s1"
    /\ call.op # "none"
    /\ "sign" \in DOMAIN posted
    /\ posted.timestamp = Str(now)

-----------------------------------------------------------------------------
(* C12: mention composition of send_text_message.                            *)

(* The mention tokens the claim expects, in order: the all-mention token     *)
(* when at_all, then one token per user id in list order.                    *)
C12_Mentions ==
    (IF call.at_all THEN << << "at", "all" >> >> ELSE << >>)
        \o [i \in 1 .. Len(call.at_users) |-> << "at", call.at_users[i] >>]

(* C12: the text body of a send_text_message call is the all-mention token   *)
(* (only when at_all), then one mention token per user id in list order      *)
(* (none for an empty list), then the original text, every token followed by *)
(* exactly one space.                                                        *)
C12_MentionComposition ==
    call.op = "text" =>
        LET body == payload.content.text
            n == Len(C12_Mentions)
        IN  /\ payload.msg_type = "text"
            /\ Len(body) = 2 * n + Len(call.text)
            /\ \A i \in 1 .. n :
                    /\ body[2 * i - 1] = C12_Mentions[i]
                    /\ body[2 * i] = << "sp", " " >>
            /\ SubSeq(body, 2 * n + 1, Len(body)) = call.text
            /\ "content" \in DOMAIN posted => posted.content.text = body

C12_Witness ==
    /\ call.op = "text"
    /\ call.at_all
    /\ Len(call.at_users) = 2
    /\ call.at_users[1] # call.at_users[2]
    /\ Len(payload.content.text) = 7

-----------------------------------------------------------------------------
(* C13: card round trip through send_card_message.                           *)

(* C13: after every send_card_message call, with or without a secret, the    *)
(* posted body has a card field equal to the card passed in and msg_type     *)
(* "interactive".                                                            *)
C13_CardRoundTrip ==
    call.op = "card" =>
        /\ {"msg_type", "card"} \subseteq DOMAIN posted
        /\ posted.card = call.card
        /\ posted.msg_type = "interactive"

C13_Witness ==
    /\ call.op = "card"
    /\ call.card = "card2"
    /\ secret = "s1"
    /\ DOMAIN posted = {"msg_type", "card", "timestamp", "sign"}

C13_WitnessUnsigned ==
    /\ call.op = "card"
    /\ secret = None
    /\ DOMAIN posted = {"msg_type", "card"}

-----------------------------------------------------------------------------
(* C14: marking of attempted entries.                                        *)

(* C14 as stated: when the try block of a cycle has been left, every entry   *)
(* a delivery was attempted for in that cycle is in sent_entries, whatever   *)
(* the outcome of the attempt, a raised error included.                      *)
C14_MarkedWhateverOutcome ==
    pc = "update" => IdsOf(attempted) \subseteq sent_entries

(* C14 amended: an entry whose send_card_message call returns, with a        *)
(* success or with an error result, is in sent_entries from then on, so also *)
(* when the cycle ends, and no later poll selects it; an entry whose send    *)
(* raises is not added by that attempt.                                      *)
C14_MarkedWhenSendReturns ==
    [][ /\ (pc = "deliver" /\ attempted' # attempted) =>
              LET entry == attempted'[Len(attempted')]
              IN  IF outcome' = "raise"
                  THEN sent_entries' = sent_entries /\ pc' = "update"
                  ELSE entry.id \in sent_entries'
        /\ sent_entries \subseteq sent_entries'
        /\ (pc = "poll" /\ pc' = "deliver") =>
              \A i \in 1 .. Len(new_notifications') :
                  new_notifications'[i].id \notin sent_entries ]_vars

C14_Witness ==
    /\ pc = "update"
    /\ outcome = "raise"
    /\ Len(attempted) = 2
    /\ attempted[1].id \in sent_entries
    /\ attempted[2].id \notin sent_entries

-----------------------------------------------------------------------------
(* C15: order of the steps of one loop iteration.                            *)

(* The deliveries made so far in this iteration are the first entries of     *)
(* the poll's result, in the poll's (feed) order.                            *)
C15_DeliveredInFeedOrder ==
    /\ Len(attempted) <= Len(new_notifications)
    /\ \A i \in 1 .. Len(attempted) : attempted[i] = new_notifications[i]

(* C15: every iteration goes poll, then the deliveries of that poll's        *)
(* entries one at a time in feed order, then one watermark update to now,    *)
(* then sleep; a poll or a delivery that raises goes to the update too, the  *)
(* watermark changes in no other step, and the update is not reached before  *)
(* every delivery was attempted or the iteration was aborted.                *)
C15_StepOrder ==
    [][ /\ pc = "poll" => pc' \in {"poll", "deliver", "update"}
        /\ pc = "deliver" => pc' \in {"deliver", "update"}
        /\ pc = "update" => pc' \in {"update", "sleep"}
        /\ pc = "sleep" => pc' \in {"sleep", "poll"}
        /\ pc \in {"poll", "deliver", "update", "sleep"}
        /\ (pc = "deliver" /\ attempted' # attempted) =>
              /\ attempted' = Append(attempted, new_notifications[Len(attempted) + 1])
              /\ new_notifications' = new_notifications
        /\ C15_DeliveredInFeedOrder'
        /\ (pc \in {"poll", "deliver"} /\ raised' /\ ~raised) => pc' = "update"
        /\ (pc # "update" /\ pc' = "update") =>
              \/ raised'
              \/ Len(attempted') = Len(new_notifications')
        /\ (pc = "update" /\ pc' = "sleep") => last_checked' = now
        /\ last_checked' # last_checked => (pc = "update" /\ pc' = "sleep")
      ]_vars

C15_Witness ==
    /\ pc = "sleep"
    /\ raised
    /\ ~first
    /\ now > 0
    /\ last_checked = now
    /\ sent_entries # {}

-----------------------------------------------------------------------------
(* C17: the sent-id set of the main loop.                                    *)

(* C17: sent_entries is empty at startup, no step removes an id from it, a   *)
(* step adds an id only when a send_card_message call for an entry with that *)
(* id has returned in that step, and so every id in it was sent in this run. *)
C17_SentOnlyGrows ==
    /\ sent_entries = {}
    /\ [](\A k \in sent_entries : k \in Keys /\ calls[k] > 0)
    /\ [][ /\ sent_entries \subseteq sent_entries'
           /\ sent_entries' # sent_entries =>
                 /\ pc = "deliver"
                 /\ attempted' = Append(attempted, new_notifications[idx])
                 /\ sent_entries' = sent_entries \cup {new_notifications[idx].id}
                 /\ call'.op = "card"
                 /\ ~raised'
                 /\ DOMAIN result' # {}
                 /\ outcome' # "raise" ]_vars

C17_Witness ==
    /\ ~first
    /\ pc = "deliver"
    /\ Cardinality(sent_entries) = 2
    /\ Len(attempted) = 1
    /\ \A k \in sent_entries : calls[k] = 1

-----------------------------------------------------------------------------
(* C16: every new entry of a fetched feed is eventually attempted.           *)

(* The entry is in the feed the current cycle fetched, it is published after *)
(* the watermark w, and its id is not in sent_entries.                       *)
C16_FetchedAndNew(entry, w) ==
    /\ pc \in {"deliver", "update"}
    /\ \E i \in 1 .. Len(feed) : feed[i] = entry
    /\ entry.link # None
    /\ entry.published_parsed > w
    /\ EntryId(entry) \notin sent_entries

(* A send_card_message call has been made for the entry's id. *)
C16_Attempted(entry) == entry.link # None /\ calls[EntryId(entry)] > 0

(* C16: whatever the initial watermark w, every entry that appears in a      *)
(* fetched feed with a published time after w and an id not in sent_entries  *)
(* has had or eventually gets a delivery attempt.                            *)
C16_EveryNewEntryAttempted ==
    \A w \in Times :
        last_checked = w =>
            \A entry \in Entries :
                [](C16_FetchedAndNew(entry, w) => <>C16_Attempted(entry))

-----------------------------------------------------------------------------
(* C18: what is sent is later than the watermark.                            *)

(* Every entry sent so far in the current cycle is published after w. *)
C18_SentAfter(w) ==
    \A i \in 1 .. Len(attempted) : attempted[i].published > w

(* C18 as stated: every notification sent in a cycle is published after the  *)
(* watermark in force when the cycle's poll ran, and no entry published at   *)
(* or before the initial reference time w is ever sent.                      *)
C18_NeverAtOrBeforeReference ==
    /\ [](pc \in {"deliver", "update"} => C18_SentAfter(last_checked))
    /\ \A w \in Times : last_checked = w => []C18_SentAfter(w)

(* C18 amended: every notification sent in a cycle is published after the    *)
(* watermark in force when the cycle's poll ran, and when the initial        *)
(* reference time w is not later than the clock at startup no entry          *)
(* published at or before w is ever sent.                                    *)
C18_NeverAtOrBeforePastReference ==
    /\ [](pc \in {"deliver", "update"} => C18_SentAfter(last_checked))
    /\ \A w \in Times : (last_checked = w /\ w <= now) => []C18_SentAfter(w)

C18_Witness ==
    /\ ~first
    /\ pc = "update"
    /\ last_checked > 0
    /\ Len(attempted) = 1
    /\ attempted[1].published > last_checked
    /\ calls[attempted[1].id] = 1

====
